---------------------------- MODULE Spec2Model ----------------------------
(***************************************************************************)
(* A model of evm_trace/parity.py: the numeric field validators, the       *)
(* decode of one Parity trace record (action / result variants and the     *)
(* call_type validator) and get_calltree_from_parity_trace.                *)
(*                                                                         *)
(* Representation.  Text is a sequence of one-character strings, so that   *)
(* int(v, 16) and str.upper() are computed character by character.  An     *)
(* Optional value is a sequence of length 0 (None) or 1.  A Python object  *)
(* or dict is a function from attribute / key names to values; reading an  *)
(* attribute that is not in its domain is an AttributeError.  An exception *)
(* is a record with the single field exc.                                  *)
(***************************************************************************)
EXTENDS Integers, Sequences, FiniteSets, TLC

VARIABLES
    nfield,      \* numeric normalizer: the field whose validator runs
    nraw,        \* numeric normalizer: the raw value handed to it
    nout,        \* numeric normalizer: what the validator returned or raised
    raw,         \* decode: the raw record (a JSON object)
    rec,         \* decode: the ParityTrace built from it, or the exception
    traces,      \* assembly: ParityTraceList.root
    root,        \* assembly: the root argument (None or one record)
    root_kwargs, \* assembly: **root_kwargs
    tree,        \* assembly, one shot: the returned node or the exception
    stack,       \* assembly, step by step: the call stack of frames
    result,      \* assembly, step by step: the value returned by the outermost call
    built        \* assembly, step by step: nodes built so far per Record Set position

vars == <<nfield, nraw, nout, raw, rec, traces, root, root_kwargs, tree, stack, result, built>>

Idle == "idle"
Pending == [pending |-> TRUE]
IsPending(v) == DOMAIN v = {"pending"}

None == <<>>
Some(v) == <<v>>

Raise(name) == [exc |-> name]
IsExc(v) == DOMAIN v = {"exc"}

Max(a, b) == IF a >= b THEN a ELSE b

(***************************************************************************)
(* int(v, 16)                                                              *)
(***************************************************************************)

\* Text is a sequence of Unicode code points; a literal is written with
\* printable ASCII characters: Printable[i] is the character 31 + i and
\* PrintableLower[i] the character 96 + i.
Printable ==
    <<" ", "!", "\"", "#", "$", "%", "&", "'", "(", ")", "*", "+", ",", "-",
    ".", "/", "0", "1", "2", "3", "4", "5", "6", "7", "8", "9", ":", ";", "<",
    "=", ">", "?", "@", "A", "B", "C", "D", "E", "F", "G", "H", "I", "J", "K",
    "L", "M", "N", "O", "P", "Q", "R", "S", "T", "U", "V", "W", "X", "Y", "Z",
    "[", "\\", "]", "^", "_">>

PrintableLower ==
    <<"a", "b", "c", "d", "e", "f", "g", "h", "i", "j", "k", "l", "m", "n", "o",
    "p", "q", "r", "s", "t", "u", "v", "w", "x", "y", "z", "{", "|", "}", "~">>

\* ord(c)
Ord(c) ==
    IF \E i \in 1..Len(Printable) : Printable[i] = c
    THEN 31 + (CHOOSE i \in 1..Len(Printable) : Printable[i] = c)
    ELSE 96 + (CHOOSE i \in 1..Len(PrintableLower) : PrintableLower[i] = c)

Text(s) == [i \in 1..Len(s) |-> Ord(s[i])]

\* Longest text drawn for the numeric normalizer.
MaxLen == 4

\* U+2000 is a space and U+0660 a decimal digit, a zero, outside ASCII.
Alphabet == {Ord("0"), Ord("1"), Ord("2"), Ord("6"), Ord("a"), Ord("x"),
             Ord("-"), Ord("_"), Ord(" "), 8192, 1632}

Texts == UNION {[1..n -> Alphabet] : n \in 0..MaxLen}

\* The code points of the digit zero of every decimal digit set (category Nd,
\* Unicode 15.1); the digits 1 to 9 of a set follow its zero.  The sets at
\* U+11F50 and U+1E4F0 are digits from Unicode 15.0 on.
DecimalZeros ==
    {48, 1632, 1776, 1984, 2406, 2534, 2662, 2790, 2918, 3046, 3174, 3302,
     3430, 3558, 3664, 3792, 3872, 4160, 4240, 6112, 6160, 6470, 6608, 6784,
     6800, 6992, 7088, 7232, 7248, 42528, 43216, 43264, 43472, 43504, 43600,
     44016, 65296, 66720, 68912, 69734, 69872, 69942, 70096, 70384, 70736,
     70864, 71248, 71360, 71472, 71904, 72016, 72784, 73040, 73120, 73552, 92768,
     92864, 93008, 120782, 120792, 120802, 120812, 120822, 123200, 123632,
     124144, 125264, 130032}

DecimalDigits == UNION {z..(z + 9) : z \in DecimalZeros}

\* "A" to "F" and "a" to "f"
UpperHex == 65..70
LowerHex == 97..102

\* What int(v, 16) reads as a digit: a decimal digit of any script, a to f, A to F.
HexDigits == DecimalDigits \cup UpperHex \cup LowerHex

DigitValue(c) ==
    IF c \in LowerHex THEN 10 + (c - 97)
    ELSE IF c \in UpperHex THEN 10 + (c - 65)
    ELSE c - (CHOOSE z \in DecimalZeros : c \in z..(z + 9))

\* The code points int() strips from both ends of the text: tab, line feed,
\* vertical tab, form feed, carriage return, space, and the spaces outside ASCII.
\* U+001C to U+001F are not among them.
Whitespace ==
    {9, 10, 11, 12, 13, 32, 133, 160, 5760, 8192, 8193, 8194, 8195, 8196,
     8197, 8198, 8199, 8200, 8201, 8202, 8232, 8233, 8239, 8287, 12288}

IsSpace(c) == c \in Whitespace

RECURSIVE LStrip(_)
LStrip(s) == IF s # <<>> /\ IsSpace(Head(s)) THEN LStrip(Tail(s)) ELSE s

RECURSIVE RStrip(_)
RStrip(s) ==
    IF s # <<>> /\ IsSpace(s[Len(s)]) THEN RStrip(SubSeq(s, 1, Len(s) - 1)) ELSE s

\* "_", "-" and "+", "-", "0", "x" and "X"
Underscore == 95
Signs == {45, 43}
Minus == 45
DigitZero == 48
MarkerLetters == {120, 88}

\* The value of a run of hex digits with single underscores between them.
RECURSIVE DigitsValue(_, _)
DigitsValue(s, acc) ==
    IF s = <<>> THEN acc
    ELSE IF Head(s) = Underscore THEN DigitsValue(Tail(s), acc)
    ELSE DigitsValue(Tail(s), 16 * acc + DigitValue(Head(s)))

\* Digits, possibly with single underscores between two digits.
DigitsOK(w) ==
    /\ w # <<>>
    /\ \A i \in 1..Len(w) : w[i] \in HexDigits \cup {Underscore}
    /\ w[1] # Underscore
    /\ w[Len(w)] # Underscore
    /\ \A i \in 1..(Len(w) - 1) : ~(w[i] = Underscore /\ w[i + 1] = Underscore)

\* int(text, 16): surrounding whitespace, an optional sign, an optional 0x / 0X
\* marker (which one underscore may follow), then the digits.  int() reads a
\* space or a decimal digit outside ASCII as the ASCII one before it parses, so
\* the 0 of the marker is the zero of any decimal digit set, while the sign, the
\* x and the underscore are the ASCII characters only.
IntBase16(s) ==
    LET t == RStrip(LStrip(s))
        signed == t # <<>> /\ t[1] \in Signs
        neg == t # <<>> /\ t[1] = Minus
        u == IF signed THEN Tail(t) ELSE t
        marked == Len(u) >= 2 /\ u[1] \in DecimalZeros /\ u[2] \in MarkerLetters
        v == IF marked THEN SubSeq(u, 3, Len(u)) ELSE u
        w == IF marked /\ v # <<>> /\ v[1] = Underscore THEN Tail(v) ELSE v
    IN  IF DigitsOK(w)
        THEN [val |-> IF neg THEN 0 - DigitsValue(w, 0) ELSE DigitsValue(w, 0)]
        ELSE Raise("ValueError")

\* A raw JSON scalar: text, or a native integer.
Str(s) == [str |-> s]
Native(n) == [int |-> n]
IsStr(v) == DOMAIN v = {"str"}

\* CallAction.convert_integer and CreateAction.convert_integer: int(v, 16).
\* int() with an explicit base takes text only.
HexOnly(v) == IF IsStr(v) THEN IntBase16(v.str) ELSE Raise("TypeError")

\* SelfDestructAction.convert_integer and ActionResult.convert_integer:
\* int(v, 16) if isinstance(v, str) else int(v).
HexOrNative(v) == IF IsStr(v) THEN IntBase16(v.str) ELSE [val |-> v.int]

NumericFields == {"CallAction.gas", "CallAction.value", "CreateAction.gas",
                  "CreateAction.value", "SelfDestructAction.balance",
                  "ActionResult.gas_used"}

HexOnlyFields == {"CallAction.gas", "CallAction.value", "CreateAction.gas",
                  "CreateAction.value"}

convert_integer(f, v) == IF f \in HexOnlyFields THEN HexOnly(v) ELSE HexOrNative(v)

Natives == {0 - 1, 0, 26}

RawValues == {Str(s) : s \in Texts} \cup {Native(n) : n \in Natives}

T_0x1a == Text(<<"0", "x", "1", "a">>)
T_26 == Text(<<"2", "6">>)
T_neg0x1 == Text(<<"-", "0", "x", "1">>)

InitNum ==
    /\ nfield \in NumericFields
    /\ nraw \in RawValues
    /\ nout = Pending
    /\ raw = Idle /\ rec = Idle
    /\ traces = Idle /\ root = Idle /\ root_kwargs = Idle /\ tree = Idle
    /\ stack = Idle /\ result = Idle /\ built = Idle

\* pydantic runs the field's "before" validator on the raw value.
Convert ==
    /\ IsPending(nout)
    /\ nout' = convert_integer(nfield, nraw)
    /\ UNCHANGED <<nfield, nraw, raw, rec, traces, root, root_kwargs, tree,
                   stack, result, built>>

NextNum == Convert

SpecNum == InitNum /\ [][NextNum]_vars

(***************************************************************************)
(* Decoding one record: ParityTrace and its action / result unions         *)
(***************************************************************************)

\* str.upper() maps each code point to one, two or three code points (Unicode
\* 14.0 to 15.1).  An entry <<first, last, step, target>> maps the code points first,
\* first + step, ... last: when target is one code point t, to t, t + step, ...
\* and otherwise (first = last) to the code points of target.
UpperTable ==
    {<<181, 181, 1, <<924>>>>, <<223, 223, 1, <<83, 83>>>>, <<224, 246, 1,
     <<192>>>>, <<248, 254, 1, <<216>>>>, <<255, 255, 1, <<376>>>>, <<257,
     303, 2, <<256>>>>, <<305, 305, 1, <<73>>>>, <<307, 311, 2, <<306>>>>,
     <<314, 328, 2, <<313>>>>, <<329, 329, 1, <<700, 78>>>>, <<331, 375, 2,
     <<330>>>>, <<378, 382, 2, <<377>>>>, <<383, 383, 1, <<83>>>>, <<384, 384,
     1, <<579>>>>, <<387, 389, 2, <<386>>>>, <<392, 392, 1, <<391>>>>, <<396,
     396, 1, <<395>>>>, <<402, 402, 1, <<401>>>>, <<405, 405, 1, <<502>>>>,
     <<409, 409, 1, <<408>>>>, <<410, 410, 1, <<573>>>>, <<414, 414, 1,
     <<544>>>>, <<417, 421, 2, <<416>>>>, <<424, 424, 1, <<423>>>>, <<429,
     429, 1, <<428>>>>, <<432, 432, 1, <<431>>>>, <<436, 438, 2, <<435>>>>,
     <<441, 441, 1, <<440>>>>, <<445, 445, 1, <<444>>>>, <<447, 447, 1,
     <<503>>>>, <<453, 453, 1, <<452>>>>, <<454, 454, 1, <<452>>>>, <<456,
     456, 1, <<455>>>>, <<457, 457, 1, <<455>>>>, <<459, 459, 1, <<458>>>>,
     <<460, 460, 1, <<458>>>>, <<462, 476, 2, <<461>>>>, <<477, 477, 1,
     <<398>>>>, <<479, 495, 2, <<478>>>>, <<496, 496, 1, <<74, 780>>>>, <<498,
     498, 1, <<497>>>>, <<499, 499, 1, <<497>>>>, <<501, 501, 1, <<500>>>>,
     <<505, 543, 2, <<504>>>>, <<547, 563, 2, <<546>>>>, <<572, 572, 1,
     <<571>>>>, <<575, 576, 1, <<11390>>>>, <<578, 578, 1, <<577>>>>, <<583,
     591, 2, <<582>>>>, <<592, 592, 1, <<11375>>>>, <<593, 593, 1,
     <<11373>>>>, <<594, 594, 1, <<11376>>>>, <<595, 595, 1, <<385>>>>, <<596,
     596, 1, <<390>>>>, <<598, 599, 1, <<393>>>>, <<601, 601, 1, <<399>>>>,
     <<603, 603, 1, <<400>>>>, <<604, 604, 1, <<42923>>>>, <<608, 608, 1,
     <<403>>>>, <<609, 609, 1, <<42924>>>>, <<611, 611, 1, <<404>>>>, <<613,
     613, 1, <<42893>>>>, <<614, 614, 1, <<42922>>>>, <<616, 616, 1,
     <<407>>>>, <<617, 617, 1, <<406>>>>, <<618, 618, 1, <<42926>>>>, <<619,
     619, 1, <<11362>>>>, <<620, 620, 1, <<42925>>>>, <<623, 623, 1,
     <<412>>>>, <<625, 625, 1, <<11374>>>>, <<626, 626, 1, <<413>>>>, <<629,
     629, 1, <<415>>>>, <<637, 637, 1, <<11364>>>>, <<640, 640, 1, <<422>>>>,
     <<642, 642, 1, <<42949>>>>, <<643, 643, 1, <<425>>>>, <<647, 647, 1,
     <<42929>>>>, <<648, 648, 1, <<430>>>>, <<649, 649, 1, <<580>>>>, <<650,
     651, 1, <<433>>>>, <<652, 652, 1, <<581>>>>, <<658, 658, 1, <<439>>>>,
     <<669, 669, 1, <<42930>>>>, <<670, 670, 1, <<42928>>>>, <<837, 837, 1,
     <<921>>>>, <<881, 883, 2, <<880>>>>, <<887, 887, 1, <<886>>>>, <<891,
     893, 1, <<1021>>>>, <<912, 912, 1, <<921, 776, 769>>>>, <<940, 940, 1,
     <<902>>>>, <<941, 943, 1, <<904>>>>, <<944, 944, 1, <<933, 776, 769>>>>,
     <<945, 961, 1, <<913>>>>, <<962, 962, 1, <<931>>>>, <<963, 971, 1,
     <<931>>>>, <<972, 972, 1, <<908>>>>, <<973, 974, 1, <<910>>>>, <<976,
     976, 1, <<914>>>>, <<977, 977, 1, <<920>>>>, <<981, 981, 1, <<934>>>>,
     <<982, 982, 1, <<928>>>>, <<983, 983, 1, <<975>>>>, <<985, 1007, 2,
     <<984>>>>, <<1008, 1008, 1, <<922>>>>, <<1009, 1009, 1, <<929>>>>,
     <<1010, 1010, 1, <<1017>>>>, <<1011, 1011, 1, <<895>>>>, <<1013, 1013, 1,
     <<917>>>>, <<1016, 1016, 1, <<1015>>>>, <<1019, 1019, 1, <<1018>>>>,
     <<1072, 1103, 1, <<1040>>>>, <<1104, 1119, 1, <<1024>>>>, <<1121, 1153,
     2, <<1120>>>>, <<1163, 1215, 2, <<1162>>>>, <<1218, 1230, 2, <<1217>>>>,
     <<1231, 1231, 1, <<1216>>>>, <<1233, 1327, 2, <<1232>>>>, <<1377, 1414,
     1, <<1329>>>>, <<1415, 1415, 1, <<1333, 1362>>>>, <<4304, 4346, 1,
     <<7312>>>>, <<4349, 4351, 1, <<7357>>>>, <<5112, 5117, 1, <<5104>>>>,
     <<7296, 7296, 1, <<1042>>>>, <<7297, 7297, 1, <<1044>>>>, <<7298, 7298,
     1, <<1054>>>>, <<7299, 7300, 1, <<1057>>>>, <<7301, 7301, 1, <<1058>>>>,
     <<7302, 7302, 1, <<1066>>>>, <<7303, 7303, 1, <<1122>>>>, <<7304, 7304,
     1, <<42570>>>>, <<7545, 7545, 1, <<42877>>>>, <<7549, 7549, 1,
     <<11363>>>>, <<7566, 7566, 1, <<42950>>>>, <<7681, 7829, 2, <<7680>>>>,
     <<7830, 7830, 1, <<72, 817>>>>, <<7831, 7831, 1, <<84, 776>>>>, <<7832,
     7832, 1, <<87, 778>>>>, <<7833, 7833, 1, <<89, 778>>>>, <<7834, 7834, 1,
     <<65, 702>>>>, <<7835, 7835, 1, <<7776>>>>, <<7841, 7935, 2, <<7840>>>>,
     <<7936, 7943, 1, <<7944>>>>, <<7952, 7957, 1, <<7960>>>>, <<7968, 7975,
     1, <<7976>>>>, <<7984, 7991, 1, <<7992>>>>, <<8000, 8005, 1, <<8008>>>>,
     <<8016, 8016, 1, <<933, 787>>>>, <<8017, 8023, 2, <<8025>>>>, <<8018,
     8018, 1, <<933, 787, 768>>>>, <<8020, 8020, 1, <<933, 787, 769>>>>,
     <<8022, 8022, 1, <<933, 787, 834>>>>, <<8032, 8039, 1, <<8040>>>>,
     <<8048, 8049, 1, <<8122>>>>, <<8050, 8053, 1, <<8136>>>>, <<8054, 8055,
     1, <<8154>>>>, <<8056, 8057, 1, <<8184>>>>, <<8058, 8059, 1, <<8170>>>>,
     <<8060, 8061, 1, <<8186>>>>, <<8064, 8064, 1, <<7944, 921>>>>, <<8065,
     8065, 1, <<7945, 921>>>>, <<8066, 8066, 1, <<7946, 921>>>>, <<8067, 8067,
     1, <<7947, 921>>>>, <<8068, 8068, 1, <<7948, 921>>>>, <<8069, 8069, 1,
     <<7949, 921>>>>, <<8070, 8070, 1, <<7950, 921>>>>, <<8071, 8071, 1,
     <<7951, 921>>>>, <<8072, 8072, 1, <<7944, 921>>>>, <<8073, 8073, 1,
     <<7945, 921>>>>, <<8074, 8074, 1, <<7946, 921>>>>, <<8075, 8075, 1,
     <<7947, 921>>>>, <<8076, 8076, 1, <<7948, 921>>>>, <<8077, 8077, 1,
     <<7949, 921>>>>, <<8078, 8078, 1, <<7950, 921>>>>, <<8079, 8079, 1,
     <<7951, 921>>>>, <<8080, 8080, 1, <<7976, 921>>>>, <<8081, 8081, 1,
     <<7977, 921>>>>, <<8082, 8082, 1, <<7978, 921>>>>, <<8083, 8083, 1,
     <<7979, 921>>>>, <<8084, 8084, 1, <<7980, 921>>>>, <<8085, 8085, 1,
     <<7981, 921>>>>, <<8086, 8086, 1, <<7982, 921>>>>, <<8087, 8087, 1,
     <<7983, 921>>>>, <<8088, 8088, 1, <<7976, 921>>>>, <<8089, 8089, 1,
     <<7977, 921>>>>, <<8090, 8090, 1, <<7978, 921>>>>, <<8091, 8091, 1,
     <<7979, 921>>>>, <<8092, 8092, 1, <<7980, 921>>>>, <<8093, 8093, 1,
     <<7981, 921>>>>, <<8094, 8094, 1, <<7982, 921>>>>, <<8095, 8095, 1,
     <<7983, 921>>>>, <<8096, 8096, 1, <<8040, 921>>>>, <<8097, 8097, 1,
     <<8041, 921>>>>, <<8098, 8098, 1, <<8042, 921>>>>, <<8099, 8099, 1,
     <<8043, 921>>>>, <<8100, 8100, 1, <<8044, 921>>>>, <<8101, 8101, 1,
     <<8045, 921>>>>, <<8102, 8102, 1, <<8046, 921>>>>, <<8103, 8103, 1,
     <<8047, 921>>>>, <<8104, 8104, 1, <<8040, 921>>>>, <<8105, 8105, 1,
     <<8041, 921>>>>, <<8106, 8106, 1, <<8042, 921>>>>, <<8107, 8107, 1,
     <<8043, 921>>>>, <<8108, 8108, 1, <<8044, 921>>>>, <<8109, 8109, 1,
     <<8045, 921>>>>, <<8110, 8110, 1, <<8046, 921>>>>, <<8111, 8111, 1,
     <<8047, 921>>>>, <<8112, 8113, 1, <<8120>>>>, <<8114, 8114, 1, <<8122,
     921>>>>, <<8115, 8115, 1, <<913, 921>>>>, <<8116, 8116, 1, <<902,
     921>>>>, <<8118, 8118, 1, <<913, 834>>>>, <<8119, 8119, 1, <<913, 834,
     921>>>>, <<8124, 8124, 1, <<913, 921>>>>, <<8126, 8126, 1, <<921>>>>,
     <<8130, 8130, 1, <<8138, 921>>>>, <<8131, 8131, 1, <<919, 921>>>>,
     <<8132, 8132, 1, <<905, 921>>>>, <<8134, 8134, 1, <<919, 834>>>>, <<8135,
     8135, 1, <<919, 834, 921>>>>, <<8140, 8140, 1, <<919, 921>>>>, <<8144,
     8145, 1, <<8152>>>>, <<8146, 8146, 1, <<921, 776, 768>>>>, <<8147, 8147,
     1, <<921, 776, 769>>>>, <<8150, 8150, 1, <<921, 834>>>>, <<8151, 8151, 1,
     <<921, 776, 834>>>>, <<8160, 8161, 1, <<8168>>>>, <<8162, 8162, 1, <<933,
     776, 768>>>>, <<8163, 8163, 1, <<933, 776, 769>>>>, <<8164, 8164, 1,
     <<929, 787>>>>, <<8165, 8165, 1, <<8172>>>>, <<8166, 8166, 1, <<933,
     834>>>>, <<8167, 8167, 1, <<933, 776, 834>>>>, <<8178, 8178, 1, <<8186,
     921>>>>, <<8179, 8179, 1, <<937, 921>>>>, <<8180, 8180, 1, <<911,
     921>>>>, <<8182, 8182, 1, <<937, 834>>>>, <<8183, 8183, 1, <<937, 834,
     921>>>>, <<8188, 8188, 1, <<937, 921>>>>, <<8526, 8526, 1, <<8498>>>>,
     <<8560, 8575, 1, <<8544>>>>, <<8580, 8580, 1, <<8579>>>>, <<9424, 9449,
     1, <<9398>>>>, <<11312, 11359, 1, <<11264>>>>, <<11361, 11361, 1,
     <<11360>>>>, <<11365, 11365, 1, <<570>>>>, <<11366, 11366, 1, <<574>>>>,
     <<11368, 11372, 2, <<11367>>>>, <<11379, 11379, 1, <<11378>>>>, <<11382,
     11382, 1, <<11381>>>>, <<11393, 11491, 2, <<11392>>>>, <<11500, 11502, 2,
     <<11499>>>>, <<11507, 11507, 1, <<11506>>>>, <<11520, 11557, 1,
     <<4256>>>>, <<11559, 11559, 1, <<4295>>>>, <<11565, 11565, 1, <<4301>>>>,
     <<42561, 42605, 2, <<42560>>>>, <<42625, 42651, 2, <<42624>>>>, <<42787,
     42799, 2, <<42786>>>>, <<42803, 42863, 2, <<42802>>>>, <<42874, 42876, 2,
     <<42873>>>>, <<42879, 42887, 2, <<42878>>>>, <<42892, 42892, 1,
     <<42891>>>>, <<42897, 42899, 2, <<42896>>>>, <<42900, 42900, 1,
     <<42948>>>>, <<42903, 42921, 2, <<42902>>>>, <<42933, 42947, 2,
     <<42932>>>>, <<42952, 42954, 2, <<42951>>>>, <<42961, 42961, 1,
     <<42960>>>>, <<42967, 42969, 2, <<42966>>>>, <<42998, 42998, 1,
     <<42997>>>>, <<43859, 43859, 1, <<42931>>>>, <<43888, 43967, 1,
     <<5024>>>>, <<64256, 64256, 1, <<70, 70>>>>, <<64257, 64257, 1, <<70,
     73>>>>, <<64258, 64258, 1, <<70, 76>>>>, <<64259, 64259, 1, <<70, 70,
     73>>>>, <<64260, 64260, 1, <<70, 70, 76>>>>, <<64261, 64261, 1, <<83,
     84>>>>, <<64262, 64262, 1, <<83, 84>>>>, <<64275, 64275, 1, <<1348,
     1350>>>>, <<64276, 64276, 1, <<1348, 1333>>>>, <<64277, 64277, 1, <<1348,
     1339>>>>, <<64278, 64278, 1, <<1358, 1350>>>>, <<64279, 64279, 1, <<1348,
     1341>>>>, <<65345, 65370, 1, <<65313>>>>, <<66600, 66639, 1, <<66560>>>>,
     <<66776, 66811, 1, <<66736>>>>, <<66967, 66977, 1, <<66928>>>>, <<66979,
     66993, 1, <<66940>>>>, <<66995, 67001, 1, <<66956>>>>, <<67003, 67004, 1,
     <<66964>>>>, <<68800, 68850, 1, <<68736>>>>, <<71872, 71903, 1,
     <<71840>>>>, <<93792, 93823, 1, <<93760>>>>, <<125218, 125251, 1,
     <<125184>>>>}

\* "a" to "z"
LowerLetters == 97..122

UpperEntry(c, hits) ==
    IF hits = {} THEN <<c>>
    ELSE LET r == CHOOSE r \in hits : TRUE
         IN  IF Len(r[4]) = 1 THEN <<r[4][1] + (c - r[1])>> ELSE r[4]

UpperChar(c) ==
    IF c < 128 THEN IF c \in LowerLetters THEN <<c - 32>> ELSE <<c>>
    ELSE UpperEntry(c, {r \in UpperTable : c \in r[1]..r[2] /\ (c - r[1]) % r[3] = 0})

\* str.upper()
RECURSIVE ToUpper(_)
ToUpper(s) == IF s = <<>> THEN <<>> ELSE UpperChar(Head(s)) \o ToUpper(Tail(s))

Tag_call == Text(<<"c", "a", "l", "l">>)
Tag_delegatecall == Text(<<"d", "e", "l", "e", "g", "a", "t", "e", "c", "a", "l", "l">>)
Tag_staticcall == Text(<<"s", "t", "a", "t", "i", "c", "c", "a", "l", "l">>)
Tag_callcode == Text(<<"c", "a", "l", "l", "c", "o", "d", "e">>)
Tag_create == Text(<<"c", "r", "e", "a", "t", "e">>)
Tag_create2 == Text(<<"c", "r", "e", "a", "t", "e", "2">>)
Tag_suicide == Text(<<"s", "u", "i", "c", "i", "d", "e">>)
Tag_Suicide == Text(<<"S", "u", "i", "c", "i", "d", "e">>)
Tag_SUICIDE == Text(<<"S", "U", "I", "C", "I", "D", "E">>)
Tag_selfdestruct == Text(<<"s", "e", "l", "f", "d", "e", "s", "t", "r", "u", "c", "t">>)
Tag_reward == Text(<<"r", "e", "w", "a", "r", "d">>)
Tag_internal == Text(<<"i", "n", "t", "e", "r", "n", "a", "l">>)
\* "suicide" spelt with U+017F, the long s, whose upper case is S.
Tag_long_s_uicide == <<383>> \o Text(<<"u", "i", "c", "i", "d", "e">>)
V_SUICIDE == Text(<<"S", "U", "I", "C", "I", "D", "E">>)
V_INTERNAL == Text(<<"I", "N", "T", "E", "R", "N", "A", "L">>)
V_CREATE == Text(<<"C", "R", "E", "A", "T", "E">>)
V_CREATE2 == Text(<<"C", "R", "E", "A", "T", "E", "2">>)
V_CALL == Text(<<"C", "A", "L", "L">>)
V_DELEGATECALL == Text(<<"D", "E", "L", "E", "G", "A", "T", "E", "C", "A", "L", "L">>)
V_STATICCALL == Text(<<"S", "T", "A", "T", "I", "C", "C", "A", "L", "L">>)
V_CALLCODE == Text(<<"C", "A", "L", "L", "C", "O", "D", "E">>)
V_SELFDESTRUCT == Text(<<"S", "E", "L", "F", "D", "E", "S", "T", "R", "U", "C", "T">>)

\* The members of evm_trace.enums.CallType, by value.
CallTypeMembers == {"INTERNAL", "CREATE", "CREATE2", "CALL", "DELEGATECALL",
                    "STATICCALL", "CALLCODE", "SELFDESTRUCT"}

\* CallType(value): the member with that value, or ValueError.
CallType(value) ==
    CASE value = V_INTERNAL -> [val |-> "INTERNAL"]
      [] value = V_CREATE -> [val |-> "CREATE"]
      [] value = V_CREATE2 -> [val |-> "CREATE2"]
      [] value = V_CALL -> [val |-> "CALL"]
      [] value = V_DELEGATECALL -> [val |-> "DELEGATECALL"]
      [] value = V_STATICCALL -> [val |-> "STATICCALL"]
      [] value = V_CALLCODE -> [val |-> "CALLCODE"]
      [] value = V_SELFDESTRUCT -> [val |-> "SELFDESTRUCT"]
      [] OTHER -> Raise("ValueError")

\* The keys (aliases) a payload is read by, per model class.
FieldKeys(class) ==
    CASE class = "CreateAction" -> {"gas", "init", "value"}
      [] class = "CallAction" -> {"gas", "input", "to", "from", "value", "callType"}
      [] class = "SelfDestructAction" -> {"address", "balance"}
      [] class = "CallResult" -> {"gasUsed", "output"}
      [] class = "CreateResult" -> {"gasUsed", "address", "code"}

\* A key's raw value run through the field's validator; a missing key is a
\* validation error of its own.
Field(p, key, class_field) ==
    IF key \in DOMAIN p THEN convert_integer(class_field, p[key]) ELSE Raise("missing")

\* An Optional[str] field with default None.
OptionalField(p, key) == IF key \in DOMAIN p THEN Some(p[key]) ELSE None

\* A TypeError raised inside a validator is not a validation error: it leaves
\* model validation as it is.
Outcome(numbers, present, object) ==
    IF \E n \in numbers : IsExc(n) /\ n.exc = "TypeError" THEN Raise("TypeError")
    ELSE IF (\E n \in numbers : IsExc(n)) \/ ~present THEN Raise("ValidationError")
    ELSE object

\* CreateAction.model_validate
ValidateCreateAction(p) ==
    LET g == Field(p, "gas", "CreateAction.gas")
        v == Field(p, "value", "CreateAction.value")
    IN  Outcome({g, v}, "init" \in DOMAIN p,
                [class |-> "CreateAction", gas |-> g.val, init |-> p.init,
                 value |-> v.val])

\* CallAction.model_validate
ValidateCallAction(p) ==
    LET g == Field(p, "gas", "CallAction.gas")
        v == Field(p, "value", "CallAction.value")
    IN  Outcome({g, v}, {"from", "callType"} \subseteq DOMAIN p,
                [class |-> "CallAction", gas |-> g.val,
                 input |-> OptionalField(p, "input"),
                 receiver |-> OptionalField(p, "to"), sender |-> p.from,
                 value |-> v.val, call_type |-> p.callType])

\* SelfDestructAction.model_validate
ValidateSelfDestructAction(p) ==
    LET b == Field(p, "balance", "SelfDestructAction.balance")
    IN  Outcome({b}, "address" \in DOMAIN p,
                [class |-> "SelfDestructAction", address |-> p.address,
                 balance |-> b.val])

\* CallResult.model_validate
ValidateCallResult(p) ==
    LET u == Field(p, "gasUsed", "ActionResult.gas_used")
    IN  Outcome({u}, "output" \in DOMAIN p,
                [class |-> "CallResult", gas_used |-> u.val, output |-> p.output])

\* CreateResult.model_validate
ValidateCreateResult(p) ==
    LET u == Field(p, "gasUsed", "ActionResult.gas_used")
    IN  Outcome({u}, {"address", "code"} \subseteq DOMAIN p,
                [class |-> "CreateResult", gas_used |-> u.val,
                 address |-> p.address, code |-> p.code])

\* How pydantic picks among the members of a Union that all validate: the
\* first in declaration order (older releases), or the one with the most
\* fields set, the first of them on a tie (newer releases).
UnionPolicies == {"first", "most_fields"}

\* Validation of a Union: outs are the members' outcomes in declaration order.
UnionValidate(p, outs, policy) ==
    LET good == {i \in 1..Len(outs) : ~IsExc(outs[i])}
        set(i) == Cardinality(DOMAIN p \cap FieldKeys(outs[i].class))
        best == IF policy = "first" THEN good
                ELSE {i \in good : \A j \in good : set(j) <= set(i)}
    IN  IF \E i \in 1..Len(outs) : IsExc(outs[i]) /\ outs[i].exc = "TypeError"
        THEN Raise("TypeError")
        ELSE IF good = {} THEN Raise("ValidationError")
        ELSE outs[CHOOSE i \in best : \A j \in best : i <= j]

\* ParityTraceAction = Union[CreateAction, CallAction, SelfDestructAction]
ParityTraceAction(p, policy) ==
    UnionValidate(p, <<ValidateCreateAction(p), ValidateCallAction(p),
                       ValidateSelfDestructAction(p)>>, policy)

\* ParityTraceResult = Union[CallResult, CreateResult]
ParityTraceResult(p, policy) ==
    UnionValidate(p, <<ValidateCallResult(p), ValidateCreateResult(p)>>, policy)

\* A validator that always reads the record's outer type.
convert_call_type_outer(value, action) ==
    CallType(IF ToUpper(value) = V_SUICIDE THEN V_SELFDESTRUCT ELSE ToUpper(value))

\* ParityTrace.convert_call_type
convert_call_type(value, action) ==
    LET v1 == IF action.class = "CallAction" THEN action.call_type ELSE value
        v2 == ToUpper(v1)
        v3 == IF v2 = V_SUICIDE THEN V_SELFDESTRUCT ELSE v2
    IN  CallType(v3)

\* The record, once its action a, its kind k and its result res are validated.
ParityTraceFields(r, a, k, res) ==
    IF IsExc(k) \/ IsExc(res) THEN Raise("ValidationError")
    ELSE [error |-> r.error, action |-> a, call_type |-> k.val,
          result |-> IF r.result = None THEN None ELSE Some(res),
          trace_address |-> r.traceAddress]

\* The fields after action, in their order.  When the action did not validate,
\* the call_type validator finds no "action" in info.data and raises KeyError.
ParityTraceAfterAction(r, a, policy) ==
    IF IsExc(a) THEN (IF a.exc = "TypeError" THEN a ELSE Raise("KeyError"))
    ELSE ParityTraceFields(r, a, convert_call_type(r.type, a),
                           IF r.result = None THEN None
                           ELSE ParityTraceResult(r.result[1], policy))

\* ParityTrace.model_validate: the fields the assembler reads.
ParityTrace(r, policy) ==
    ParityTraceAfterAction(r, ParityTraceAction(r.action, policy), policy)

(***************************************************************************)
(* The raw records drawn for the decode                                    *)
(***************************************************************************)

T_0x0 == Text(<<"0", "x", "0">>)
T_0x1 == Text(<<"0", "x", "1">>)
T_x == Text(<<"x">>)

GasRaws == {Str(T_0x1a), Str(T_26), Str(T_neg0x1), Native(26), Str(T_x)}
ValueRaws == {Str(T_0x0), Str(T_neg0x1)}
BalanceRaws == {Str(T_0x1a), Native(26), Native(0 - 1)}
GasUsedRaws == {Str(T_0x1), Native(26), Str(T_neg0x1)}

CallTypeTags == {Tag_call, Tag_delegatecall, Tag_staticcall, Tag_callcode,
                 Tag_create, Tag_suicide, Tag_reward}
OuterTags == {Tag_call, Tag_delegatecall, Tag_staticcall, Tag_callcode, Tag_create,
              Tag_create2, Tag_suicide, Tag_Suicide, Tag_SUICIDE, Tag_selfdestruct,
              Tag_reward, Tag_long_s_uicide}

\* The key sets of the action payloads: the three shapes a node emits, two that
\* fit more than one class, and one that fits none.
ActionShapes == {{"gas", "input", "to", "from", "value", "callType"},
                 {"gas", "from", "value", "callType"},
                 {"gas", "init", "value"},
                 {"address", "balance"},
                 {"gas", "init", "value", "from", "callType"},
                 {"gas", "init", "value", "address", "balance"},
                 {"gas", "value"}}

ResultShapes == {{"gasUsed", "output"},
                 {"gasUsed", "address", "code"},
                 {"gasUsed", "output", "address", "code"},
                 {"gasUsed"}}

ActionPayload(S, g, v, c, b) ==
    [k \in S |-> CASE k = "gas" -> g
                   [] k = "value" -> v
                   [] k = "callType" -> c
                   [] k = "balance" -> b
                   [] k = "init" -> "0x6000"
                   [] k = "input" -> "0xabcd"
                   [] k = "to" -> "0xB"
                   [] k = "from" -> "0xA"
                   [] k = "address" -> "0xD"]

ResultPayload(S, u) ==
    [k \in S |-> CASE k = "gasUsed" -> u
                   [] k = "output" -> "0x01"
                   [] k = "address" -> "0xC"
                   [] k = "code" -> "0x60"]

ActionPayloads ==
    {ActionPayload(S, g, v, c, b) :
        S \in ActionShapes, g \in GasRaws, v \in ValueRaws, c \in CallTypeTags,
        b \in BalanceRaws}

ResultPayloads == {ResultPayload(S, u) : S \in ResultShapes, u \in GasUsedRaws}

RawRecord(type, action, res, error, address) ==
    [type |-> type, action |-> action, result |-> res, error |-> error,
     traceAddress |-> address]

RawRecords ==
    {RawRecord(t, a, r, e, <<>>) :
        t \in OuterTags, a \in ActionPayloads,
        r \in {None} \cup {Some(x) : x \in ResultPayloads},
        e \in {None, Some("Reverted")}}

InitDecode ==
    /\ raw \in RawRecords
    /\ rec = Pending
    /\ nfield = Idle /\ nraw = Idle /\ nout = Idle
    /\ traces = Idle /\ root = Idle /\ root_kwargs = Idle /\ tree = Idle
    /\ stack = Idle /\ result = Idle /\ built = Idle

\* ParityTrace.model_validate(raw), under either way of resolving a Union.
Decode ==
    /\ IsPending(rec)
    /\ \E policy \in UnionPolicies : rec' = ParityTrace(raw, policy)
    /\ UNCHANGED <<nfield, nraw, nout, raw, traces, root, root_kwargs, tree,
                   stack, result, built>>

NextDecode == Decode

SpecDecode == InitDecode /\ [][NextDecode]_vars

IsRecord(v) == ~IsPending(v) /\ ~IsExc(v)

(***************************************************************************)
(* get_calltree_from_parity_trace                                          *)
(***************************************************************************)

EmptyDict == <<>>

\* dict.update / {**d, **e}: the keys of e win.
Update(d, e) ==
    [k \in DOMAIN d \cup DOMAIN e |-> IF k \in DOMAIN e THEN e[k] ELSE d[k]]

HasAttrs(obj, names) == names \subseteq DOMAIN obj

\* The flag turned round: set when there is no error.
FailedWhenNoError(r) == r.error = None

\* failed = root.error is not None
Failed(r) == r.error # None

\* A call family that leaves CALLCODE out.
CallFamilyWithoutCallcode == {"CALL", "DELEGATECALL", "STATICCALL"}

\* The kinds of the second branch: CALL, DELEGATECALL, STATICCALL, CALLCODE.
CallFamily == {"CALL", "DELEGATECALL", "STATICCALL", "CALLCODE"}

\* The node_kwargs of one record before its calls are added: the base fields and
\* the fields of the record's kind.  cast() checks nothing, so an action or a
\* result of another class is read as it is, and a missing attribute raises.
NodeKwargs(r) ==
    LET base == [call_type |-> r.call_type, failed |-> Failed(r)]
    IN  IF r.call_type = "CREATE"
        THEN IF ~HasAttrs(r.action, {"value", "gas", "init"})
             THEN Raise("AttributeError")
             ELSE LET kw == Update(base, [value |-> r.action.value,
                                          gas_limit |-> r.action.gas,
                                          calldata |-> r.action.init])
                  IN  IF r.result = None THEN kw
                      ELSE IF ~HasAttrs(r.result[1], {"gas_used", "address"})
                      THEN Raise("AttributeError")
                      ELSE Update(kw, [gas_cost |-> r.result[1].gas_used,
                                       address |-> r.result[1].address])
        ELSE IF r.call_type \in CallFamily
        THEN IF ~HasAttrs(r.action, {"receiver", "value", "gas", "input"})
             THEN Raise("AttributeError")
             ELSE LET kw == Update(base, [address |-> r.action.receiver,
                                          value |-> r.action.value,
                                          gas_limit |-> r.action.gas,
                                          calldata |-> r.action.input])
                  IN  IF r.result = None THEN kw
                      ELSE IF ~HasAttrs(r.result[1], {"gas_used", "output"})
                      THEN Raise("AttributeError")
                      ELSE Update(kw, [gas_cost |-> r.result[1].gas_used,
                                       returndata |-> r.result[1].output])
        ELSE IF r.call_type = "SELFDESTRUCT"
        THEN IF ~HasAttrs(r.action, {"address"})
             THEN Raise("AttributeError")
             ELSE Update(base, [address |-> r.action.address])
        ELSE base

\* The smallest position of S by (last address element, position).
FirstByLastElement(ts, S) ==
    CHOOSE i \in S : \A j \in S :
        LET x == ts[i].trace_address[Len(ts[i].trace_address)]
            y == ts[j].trace_address[Len(ts[j].trace_address)]
        IN  x < y \/ (x = y /\ i <= j)

RECURSIVE ByLastElement(_, _)
ByLastElement(ts, S) ==
    IF S = {} THEN <<>>
    ELSE <<FirstByLastElement(ts, S)>>
             \o ByLastElement(ts, S \ {FirstByLastElement(ts, S)})

\* Children in the numeric order of the last address element.
SubtracePositionsSorted(ts, a) ==
    ByLastElement(ts, {i \in 1..Len(ts) :
        /\ Len(ts[i].trace_address) = Len(a) + 1
        /\ SubSeq(ts[i].trace_address, 1, Len(ts[i].trace_address) - 1) = a})

RECURSIVE ScanAnyDepth(_, _, _)
ScanAnyDepth(ts, a, i) ==
    IF i > Len(ts) THEN <<>>
    ELSE IF /\ Len(ts[i].trace_address) > Len(a)
            /\ SubSeq(ts[i].trace_address, 1, Len(a)) = a
    THEN <<i>> \o ScanAnyDepth(ts, a, i + 1)
    ELSE ScanAnyDepth(ts, a, i + 1)

\* Every record below a, at whatever depth, taken as a child.
SubtracePositionsAnyDepth(ts, a) == ScanAnyDepth(ts, a, 1)

RECURSIVE ScanFirstOfAddress(_, _, _)
ScanFirstOfAddress(ts, a, i) ==
    IF i > Len(ts) THEN <<>>
    ELSE IF /\ Len(ts[i].trace_address) = Len(a) + 1
            /\ SubSeq(ts[i].trace_address, 1, Len(ts[i].trace_address) - 1) = a
            /\ \A j \in 1..(i - 1) : ts[j].trace_address # ts[i].trace_address
    THEN <<i>> \o ScanFirstOfAddress(ts, a, i + 1)
    ELSE ScanFirstOfAddress(ts, a, i + 1)

\* Children keyed by address: of two records with one address the first is kept.
SubtracePositionsFirstOfAddress(ts, a) == ScanFirstOfAddress(ts, a, 1)

\* The positions, in Record Set order, of the records that match as children of
\* a record with trace address a.
SubtracePositions(ts, a) ==
    LET match(i) == /\ Len(ts[i].trace_address) = Len(a) + 1
                    /\ SubSeq(ts[i].trace_address, 1, Len(ts[i].trace_address) - 1) = a
        RECURSIVE scan(_)
        scan(i) == IF i > Len(ts) THEN <<>>
                   ELSE IF match(i) THEN <<i>> \o scan(i + 1)
                   ELSE scan(i + 1)
    IN  scan(1)

\* A merge in which the derived values win.
MergeDerivedWins(node_kwargs, kwargs) == Update(kwargs, node_kwargs)

\* node_kwargs = {**node_kwargs, **root_kwargs}
Merge(node_kwargs, kwargs) == Update(node_kwargs, kwargs)

\* CallTreeNode.model_validate(node_kwargs): the node type is an external
\* collaborator, known here by the fields it is built from.
CallTreeNode(node_kwargs) == node_kwargs

\* root = root or traces.root[0]
RootOrFirst(ts, r) ==
    IF r # None THEN r[1]
    ELSE IF Len(ts) >= 1 THEN ts[1]
    ELSE Raise("IndexError")

RECURSIVE get_calltree_from_parity_trace(_, _, _)
get_calltree_from_parity_trace(ts, r, kwargs) ==
    LET r0 == RootOrFirst(ts, r)
    IN  IF IsExc(r0) THEN r0
        ELSE LET node_kwargs == NodeKwargs(r0)
             IN  IF IsExc(node_kwargs) THEN node_kwargs
                 ELSE LET subtraces == SubtracePositions(ts, r0.trace_address)
                          calls == [i \in 1..Len(subtraces) |->
                                      get_calltree_from_parity_trace(
                                          ts, Some(ts[subtraces[i]]), EmptyDict)]
                          raised == {i \in 1..Len(calls) : IsExc(calls[i])}
                      IN  IF raised # {}
                          THEN calls[CHOOSE i \in raised : \A j \in raised : i <= j]
                          ELSE CallTreeNode(
                                  Merge(Update(node_kwargs, [calls |-> calls]), kwargs))

(***************************************************************************)
(* One call of get_calltree_from_parity_trace on records of every kind     *)
(***************************************************************************)

\* Longest Record Set drawn for the one-call specification.
MaxAsmRecords == 2

CallFull(c) ==
    ActionPayload({"gas", "input", "to", "from", "value", "callType"},
                  Str(T_0x1a), Str(T_0x0), c, Str(T_0x0))
CallMin(c) ==
    ActionPayload({"gas", "from", "value", "callType"},
                  Str(T_26), Str(T_0x1), c, Str(T_0x0))
CreatePayload ==
    ActionPayload({"gas", "init", "value"}, Str(T_0x1a), Str(T_0x1), Tag_create,
                  Str(T_0x0))
SelfDestructPayload ==
    ActionPayload({"address", "balance"}, Str(T_0x0), Str(T_0x0), Tag_suicide,
                  Native(26))
CallResultPayload == ResultPayload({"gasUsed", "output"}, Str(T_0x1))
CreateResultPayload == ResultPayload({"gasUsed", "address", "code"}, Native(26))

\* type, action, result, error of the raw records: calls and creates with and
\* without a result and an error, one of every kind of the call family, a
\* selfdestruct, two kinds with no fields of their own (CREATE2, INTERNAL), and
\* two records whose kind and payload classes disagree.
AsmRawBodies ==
    {<<Tag_call, CallFull(Tag_call), Some(CallResultPayload), None>>,
     <<Tag_call, CallMin(Tag_delegatecall), None, Some("Reverted")>>,
     <<Tag_call, CallFull(Tag_staticcall), Some(CallResultPayload), Some("Reverted")>>,
     <<Tag_call, CallMin(Tag_callcode), Some(CallResultPayload), None>>,
     <<Tag_call, CallFull(Tag_internal), Some(CallResultPayload), None>>,
     <<Tag_create, CreatePayload, Some(CreateResultPayload), None>>,
     <<Tag_create, CreatePayload, None, Some("Reverted")>>,
     <<Tag_suicide, SelfDestructPayload, None, None>>,
     <<Tag_create2, CreatePayload, Some(CreateResultPayload), None>>,
     <<Tag_create, SelfDestructPayload, None, None>>,
     <<Tag_call, CallFull(Tag_call), Some(CreateResultPayload), None>>}

AsmAddresses == {<<>>, <<0>>}

\* The decoded records: what ParityTrace.model_validate makes of the raw ones.
AsmRecords ==
    {ParityTrace(RawRecord(b[1], b[2], b[3], b[4], a), "first") :
        b \in AsmRawBodies, a \in AsmAddresses}

SeqsUpTo(S, n) == UNION {[1..m -> S] : m \in 0..n}

Overrides == {EmptyDict, [failed |-> TRUE], [gas_cost |-> 7],
              [failed |-> FALSE, gas_cost |-> 7]}

InitAsm ==
    /\ traces \in SeqsUpTo(AsmRecords, MaxAsmRecords)
    /\ root \in {None} \cup {Some(r) : r \in {x \in AsmRecords : x.trace_address = <<>>}}
    /\ root_kwargs \in Overrides
    /\ tree = Pending
    /\ nfield = Idle /\ nraw = Idle /\ nout = Idle
    /\ raw = Idle /\ rec = Idle
    /\ stack = Idle /\ result = Idle /\ built = Idle

\* get_calltree_from_parity_trace(traces, root, **root_kwargs)
Assemble ==
    /\ IsPending(tree)
    /\ tree' = get_calltree_from_parity_trace(traces, root, root_kwargs)
    /\ UNCHANGED <<nfield, nraw, nout, raw, rec, traces, root, root_kwargs,
                   stack, result, built>>

NextAsm == Assemble

SpecAsm == InitAsm /\ [][NextAsm]_vars

(***************************************************************************)
(* get_calltree_from_parity_trace call by call: the interpreter's stack    *)
(***************************************************************************)

\* Longest Record Set drawn for the call-by-call specification.
MaxRecords == 4

TraceAddresses == {<<>>, <<0>>, <<1>>, <<0, 0>>, <<1, 0>>}

PositionDigits == Text(<<"1", "2", "3", "4", "5", "6", "7", "8", "9">>)

\* The record at position i: a call whose gas is i, so that a node tells which
\* record it was built from.
RunRecord(i, a) ==
    ParityTrace(
        RawRecord(Tag_call,
                  ActionPayload({"gas", "input", "to", "from", "value", "callType"},
                                Str(Text(<<"0", "x">>) \o <<PositionDigits[i]>>), Str(T_0x0),
                                Tag_call, Str(T_0x0)),
                  Some(CallResultPayload), None, a),
        "first")

\* A record whose kind and action class disagree.
UnsoundRecord(a) ==
    ParityTrace(RawRecord(Tag_create, SelfDestructPayload, None, None, a), "first")

\* A record that is no member of the Record Set.
OutsideRecord(a) ==
    ParityTrace(
        RawRecord(Tag_call,
                  ActionPayload({"gas", "from", "value", "callType"},
                                Str(Text(<<"0", "x", "f">>)), Str(T_0x0), Tag_staticcall,
                                Str(T_0x0)),
                  None, Some("Reverted"), a),
        "first")

RunRecordSets ==
    UNION {{[i \in 1..n |-> IF i = bad THEN UnsoundRecord(addr[i])
                            ELSE RunRecord(i, addr[i])] :
               addr \in [1..n -> TraceAddresses], bad \in {0, n}} :
           n \in 0..MaxRecords}

\* The root and **root_kwargs arguments drawn for a Record Set.
RunArguments(ts) ==
    {<<None, EmptyDict>>,
     <<Some(OutsideRecord(<<0>>)), EmptyDict>>,
     <<Some(OutsideRecord(<<0, 0, 0>>)), [failed |-> FALSE]>>}
    \cup (IF ts = <<>> THEN {} ELSE {<<Some(ts[Len(ts)]), [gas_cost |-> 7]>>})

\* A frame of a call that has just been entered with root argument arg.  pos is
\* the Record Set position of the record the call is made on (0: the caller
\* named the root).
EnterFrame(arg, pos, kwargs) ==
    [pc |-> "enter", arg |-> arg, pos |-> pos, kwargs |-> kwargs,
     root |-> None, node_kwargs |-> EmptyDict, subtraces |-> <<>>, calls |-> <<>>]

Top == stack[Len(stack)]

InitRun ==
    /\ traces \in RunRecordSets
    /\ \E args \in RunArguments(traces) : root = args[1] /\ root_kwargs = args[2]
    /\ stack = <<>>
    /\ result = Pending
    /\ built = [i \in 1..Len(traces) |-> 0]
    /\ nfield = Idle /\ nraw = Idle /\ nout = Idle
    /\ raw = Idle /\ rec = Idle /\ tree = Idle

\* The caller's call.
Call ==
    /\ stack = <<>>
    /\ IsPending(result)
    /\ stack' = <<EnterFrame(root, IF root = None THEN 1 ELSE 0, root_kwargs)>>
    /\ UNCHANGED <<nfield, nraw, nout, raw, rec, traces, root, root_kwargs, tree,
                   result, built>>

\* Lines 134-190 of a call with root argument arg: the root, its node_kwargs
\* and its subtraces, or the exception raised on the way.
Entered(ts, arg) ==
    LET r0 == RootOrFirst(ts, arg)
    IN  IF IsExc(r0) THEN r0
        ELSE IF IsExc(NodeKwargs(r0)) THEN NodeKwargs(r0)
        ELSE [root |-> Some(r0), node_kwargs |-> NodeKwargs(r0),
              subtraces |-> SubtracePositions(ts, r0.trace_address)]

\* Lines 134-190 of the running call.
Prologue ==
    /\ stack # <<>>
    /\ Top.pc = "enter"
    /\ ~IsExc(Entered(traces, Top.arg))
    /\ stack' = [stack EXCEPT ![Len(stack)] =
                   [@ EXCEPT !.pc = "calls",
                             !.root = Entered(traces, Top.arg).root,
                             !.node_kwargs = Entered(traces, Top.arg).node_kwargs,
                             !.subtraces = Entered(traces, Top.arg).subtraces]]
    /\ UNCHANGED <<nfield, nraw, nout, raw, rec, traces, root, root_kwargs, tree,
                   result, built>>

\* The same lines raising (IndexError, AttributeError): nothing catches it, and
\* every running call is left.
RaiseError ==
    /\ stack # <<>>
    /\ Top.pc = "enter"
    /\ IsExc(Entered(traces, Top.arg))
    /\ result' = Entered(traces, Top.arg)
    /\ stack' = <<>>
    /\ UNCHANGED <<nfield, nraw, nout, raw, rec, traces, root, root_kwargs, tree,
                   built>>

\* Line 191: the recursive call on the next of the subtraces.
Recurse ==
    /\ stack # <<>>
    /\ Top.pc = "calls"
    /\ Len(Top.calls) < Len(Top.subtraces)
    /\ LET p == Top.subtraces[Len(Top.calls) + 1]
       IN  stack' = Append(stack, EnterFrame(Some(traces[p]), p, EmptyDict))
    /\ UNCHANGED <<nfield, nraw, nout, raw, rec, traces, root, root_kwargs, tree,
                   result, built>>

\* Lines 191-193: every recursive call has returned; the node is built and
\* returned to the caller.
Return ==
    /\ stack # <<>>
    /\ Top.pc = "calls"
    /\ Len(Top.calls) = Len(Top.subtraces)
    /\ LET node == CallTreeNode(
                       Merge(Update(Top.node_kwargs, [calls |-> Top.calls]), Top.kwargs))
           rest == SubSeq(stack, 1, Len(stack) - 1)
       IN  /\ IF rest = <<>>
              THEN /\ result' = node
                   /\ stack' = rest
              ELSE /\ result' = result
                   /\ stack' = [rest EXCEPT ![Len(rest)].calls = Append(@, node)]
           /\ built' = IF Top.pos = 0 THEN built
                       ELSE [built EXCEPT ![Top.pos] = @ + 1]
    /\ UNCHANGED <<nfield, nraw, nout, raw, rec, traces, root, root_kwargs, tree>>

NextRun == Call \/ Prologue \/ RaiseError \/ Recurse \/ Return

\* The interpreter runs one thread and never waits: it takes the next step.
SpecRun == InitRun /\ [][NextRun]_vars /\ WF_vars(NextRun)

\* The call-by-call run returns what the function computes.
RunAgrees ==
    ~IsPending(result) => result = get_calltree_from_parity_trace(traces, root, root_kwargs)

(***************************************************************************)
(* The numeric normalizer                                                  *)
(***************************************************************************)

\* The text begins with the hexadecimal-literal marker.
BeginsWithMarker(s) == Len(s) >= 2 /\ s[1] = DigitZero /\ s[2] \in MarkerLetters

\* C5, as stated: "0x1a" normalizes to 26 for every numeric field; the plain
\* text "26" normalizes to 26 for the hex-or-native fields and is rejected for
\* the hex-only fields, which accept only text that begins with the marker.
C5_AsStated ==
    ~IsPending(nout) =>
        /\ (nraw = Str(T_0x1a) => nout = [val |-> 26])
        /\ (nraw = Str(T_26) /\ nfield \notin HexOnlyFields => nout = [val |-> 26])
        /\ (nraw = Str(T_26) /\ nfield \in HexOnlyFields => IsExc(nout))
        /\ (nfield \in HexOnlyFields /\ ~IsExc(nout) =>
                IsStr(nraw) /\ BeginsWithMarker(nraw.str))

(***************************************************************************)
(* The decode of one record                                                *)
(***************************************************************************)

\* C6: every numeric field of a decoded record (gas, value, balance, gas_used)
\* is a non-negative integer; a raw value that denotes a negative number never
\* yields a decoded record.
C6_NonNegative ==
    IsRecord(rec) =>
        /\ \A k \in DOMAIN rec.action \cap {"gas", "value", "balance"} :
               rec.action[k] >= 0
        /\ (rec.result # None => rec.result[1].gas_used >= 0)

\* What each tag normalizes to: uppercase, SUICIDE read as SELFDESTRUCT, and
\* no kind for a tag outside the enumeration.
KindOfTag(tag) ==
    CASE tag = Tag_call -> "CALL"
      [] tag = Tag_delegatecall -> "DELEGATECALL"
      [] tag = Tag_staticcall -> "STATICCALL"
      [] tag = Tag_callcode -> "CALLCODE"
      [] tag = Tag_create -> "CREATE"
      [] tag = Tag_create2 -> "CREATE2"
      [] tag = Tag_internal -> "INTERNAL"
      [] tag \in {Tag_suicide, Tag_Suicide, Tag_SUICIDE, Tag_selfdestruct,
                  Tag_long_s_uicide} -> "SELFDESTRUCT"
      [] OTHER -> "no kind"

\* The tag a record's kind is taken from, once its action has class class.
TagUsed(r, class) == IF class = "CallAction" THEN r.action.callType ELSE r.type

ActionValidates(r) == ~IsExc(ParityTraceAction(r.action, "first"))
ResultValidates(r) ==
    r.result = None \/ ~IsExc(ParityTraceResult(r.result[1], "first"))

\* C7: the kind of a decoded record is the normalized tag, the tag being the
\* action's callType when the action decoded as a Call Action and the record's
\* outer type otherwise; a record whose action and result validate fails to
\* decode only when that tag normalizes to no member of the enumeration.
C7_KindNormalized ==
    /\ IsRecord(rec) =>
           /\ KindOfTag(TagUsed(raw, rec.action.class)) \in CallTypeMembers
           /\ rec.call_type = KindOfTag(TagUsed(raw, rec.action.class))
    /\ (~IsPending(rec) /\ IsExc(rec) /\ ActionValidates(raw) /\ ResultValidates(raw)) =>
           \E policy \in UnionPolicies :
               KindOfTag(TagUsed(raw, ParityTraceAction(raw.action, policy).class))
                   \notin CallTypeMembers

\* The outer tag "Suicide" on a record whose action is no Call Action decoded
\* to SELFDESTRUCT.
C7_Witness ==
    /\ IsRecord(rec)
    /\ rec.action.class # "CallAction"
    /\ raw.type = Tag_Suicide
    /\ rec.call_type = "SELFDESTRUCT"

(***************************************************************************)
(* One call of the assembler: projection, failed flag, overrides           *)
(***************************************************************************)

IsNode(v) == ~IsPending(v) /\ ~IsExc(v)

\* The record the outermost call is made on.
RootRecord == RootOrFirst(traces, root)

\* The positions of the records whose address is a with one index appended, in
\* ascending order.
ChildSet(ts, a) ==
    {i \in 1..Len(ts) :
        /\ Len(ts[i].trace_address) = Len(a) + 1
        /\ \A j \in 1..Len(a) : ts[i].trace_address[j] = a[j]}

RECURSIVE Ascending(_)
Ascending(S) ==
    IF S = {} THEN <<>>
    ELSE <<CHOOSE m \in S : \A x \in S : m <= x>>
             \o Ascending(S \ {CHOOSE m \in S : \A x \in S : m <= x})

ExpectedChildren(ts, a) == Ascending(ChildSet(ts, a))

\* The fields a node holds besides calls, by kind and presence of a result.
StatedKeys(kind, has_result) ==
    {"call_type", "failed"} \cup
    (CASE kind = "CREATE" ->
              {"value", "gas_limit", "calldata"}
                  \cup (IF has_result THEN {"gas_cost", "address"} ELSE {})
       [] kind \in {"CALL", "DELEGATECALL", "STATICCALL", "CALLCODE"} ->
              {"address", "value", "gas_limit", "calldata"}
                  \cup (IF has_result THEN {"gas_cost", "returndata"} ELSE {})
       [] kind = "SELFDESTRUCT" -> {"address"}
       [] OTHER -> {})

\* The node of record r holds the stated fields with the stated values.
FieldsAsStated(node, r) ==
    /\ DOMAIN node = StatedKeys(r.call_type, r.result # None) \cup {"calls"}
    /\ node.call_type = r.call_type
    /\ r.call_type = "CREATE" =>
           /\ node.value = r.action.value
           /\ node.gas_limit = r.action.gas
           /\ node.calldata = r.action.init
           /\ (r.result # None =>
                   /\ node.gas_cost = r.result[1].gas_used
                   /\ node.address = r.result[1].address)
    /\ r.call_type \in {"CALL", "DELEGATECALL", "STATICCALL", "CALLCODE"} =>
           /\ node.address = r.action.receiver
           /\ node.value = r.action.value
           /\ node.gas_limit = r.action.gas
           /\ node.calldata = r.action.input
           /\ (r.result # None =>
                   /\ node.gas_cost = r.result[1].gas_used
                   /\ node.returndata = r.result[1].output)
    /\ r.call_type = "SELFDESTRUCT" => node.address = r.action.address

\* The child nodes of the returned root, each with the record it stands for.
ChildrenAre(P(_, _)) ==
    /\ Len(tree.calls) = Len(ExpectedChildren(traces, RootRecord.trace_address))
    /\ \A k \in 1..Len(tree.calls) :
           P(tree.calls[k], traces[ExpectedChildren(traces, RootRecord.trace_address)[k]])

FailedIsErrorPresent(node, r) == node.failed = (r.error # None)
NodeOfRecord(node, r) == FieldsAsStated(node, r) /\ FailedIsErrorPresent(node, r)

\* C2: every field of the overrides has the override's value on the returned
\* root node, every other field keeps the value derived without overrides, and
\* no child node is touched by the overrides.
C2_OverridesLast ==
    IsNode(tree) =>
        /\ \A k \in DOMAIN root_kwargs : tree[k] = root_kwargs[k]
        /\ DOMAIN tree =
               DOMAIN get_calltree_from_parity_trace(traces, root, EmptyDict)
                   \cup DOMAIN root_kwargs
        /\ \A k \in DOMAIN tree \ DOMAIN root_kwargs :
               tree[k] = get_calltree_from_parity_trace(traces, root, EmptyDict)[k]
        /\ ChildrenAre(NodeOfRecord)

\* The override {failed: true} on a root record without an error: the root node
\* is failed.
C2_Witness ==
    /\ IsNode(tree)
    /\ root_kwargs = [failed |-> TRUE]
    /\ RootRecord.error = None
    /\ tree.failed = TRUE
    /\ Len(tree.calls) >= 1

\* C3: the fields of a node follow from its record's kind and from whether the
\* record has a result, as the table of kinds states them (root and children).
C3_Projection ==
    (IsNode(tree) /\ root_kwargs = EmptyDict) =>
        /\ FieldsAsStated(tree, RootRecord)
        /\ ChildrenAre(FieldsAsStated)

\* A CALLCODE record with a result and neither "to" nor "input", and under it a
\* DELEGATECALL record with an error and no result: a root node with gas_cost
\* and returndata and no address, and a child node without gas_cost and
\* returndata.
C3_Witness ==
    /\ IsNode(tree)
    /\ root_kwargs = EmptyDict
    /\ RootRecord.call_type = "CALLCODE"
    /\ RootRecord.result # None
    /\ tree.gas_cost = 1
    /\ tree.address = None
    /\ Len(tree.calls) = 1
    /\ tree.calls[1].call_type = "DELEGATECALL"
    /\ tree.calls[1].failed = TRUE
    /\ {"gas_cost", "returndata"} \cap DOMAIN tree.calls[1] = {}

\* C4, as stated: failed = (root.error is not present).
C4_AsStated ==
    (IsNode(tree) /\ "failed" \notin DOMAIN root_kwargs) =>
        tree.failed = (RootRecord.error = None)

\* C4, amended: without a failed override, the node's failed flag is
\* failed = (root.error is present), for the root and for every child.
C4_Amended ==
    (IsNode(tree) /\ "failed" \notin DOMAIN root_kwargs) =>
        /\ FailedIsErrorPresent(tree, RootRecord)
        /\ ChildrenAre(FailedIsErrorPresent)

\* A root record with an error and no failed override: the node is failed.
C4_Witness ==
    /\ IsNode(tree)
    /\ "failed" \notin DOMAIN root_kwargs
    /\ RootRecord.error # None
    /\ tree.failed = TRUE

\* C8: a successfully decoded record is type-sound (its kind agrees with the
\* classes of its action and result), so that projecting its fields never fails.
C8_TypeSound ==
    IsRecord(rec) =>
        /\ rec.call_type = "CREATE" =>
               /\ rec.action.class = "CreateAction"
               /\ (rec.result # None => rec.result[1].class = "CreateResult")
        /\ rec.call_type \in {"CALL", "DELEGATECALL", "STATICCALL", "CALLCODE"} =>
               /\ rec.action.class = "CallAction"
               /\ (rec.result # None => rec.result[1].class = "CallResult")
        /\ rec.call_type = "SELFDESTRUCT" => rec.action.class = "SelfDestructAction"
        /\ ~IsExc(get_calltree_from_parity_trace(<<rec>>, None, EmptyDict))

(***************************************************************************)
(* The assembly call by call: children, recursion depth, node counts       *)
(***************************************************************************)

\* The node was built from record r, and its child nodes, position by
\* position, from the records whose address is r's with one index appended,
\* in Record Set order; and so on down the tree.
RECURSIVE Conforms(_, _, _)
Conforms(node, r, ts) ==
    /\ node.gas_limit = r.action.gas
    /\ Len(node.calls) = Len(ExpectedChildren(ts, r.trace_address))
    /\ \A k \in 1..Len(node.calls) :
           Conforms(node.calls[k], ts[ExpectedChildren(ts, r.trace_address)[k]], ts)

\* C1: for every record used as the root of a call, the child nodes correspond,
\* position by position, to the subsequence of the Record Set, in Record Set
\* order, of the records whose address is the root's with one index appended;
\* no other record becomes a child.
C1_ChildrenInSetOrder ==
    /\ \A i \in 1..Len(stack) :
           stack[i].pc = "calls" =>
               /\ stack[i].subtraces =
                      ExpectedChildren(traces, stack[i].root[1].trace_address)
               /\ \A k \in 1..Len(stack[i].calls) :
                      stack[i].calls[k].gas_limit
                          = traces[stack[i].subtraces[k]].action.gas
    /\ IsNode(result) => Conforms(result, RootRecord, traces)

\* Address [1] comes before address [0] in the Record Set, and so do their nodes.
C1_Witness ==
    /\ root = None
    /\ IsNode(result)
    /\ Len(traces) >= 3
    /\ traces[1].trace_address = <<>>
    /\ traces[2].trace_address = <<1>>
    /\ traces[3].trace_address = <<0>>
    /\ Len(result.calls) = 2
    /\ result.calls[1].gas_limit = 2
    /\ result.calls[2].gas_limit = 3

MaxAddressLength(ts) ==
    IF ts = <<>> THEN 0
    ELSE CHOOSE m \in {Len(ts[i].trace_address) : i \in 1..Len(ts)} :
             \A i \in 1..Len(ts) : Len(ts[i].trace_address) <= m

\* C9, as stated: the recursion depth never exceeds
\* (maximum address length in the set) - len(root.trace_address) + 1.
C9_AsStated ==
    (stack # <<>> /\ ~IsExc(RootRecord)) =>
        Len(stack) <= MaxAddressLength(traces) - Len(RootRecord.trace_address) + 1

\* Each recursive call is made on a record whose address is exactly one element
\* longer than its caller's.
StepsOneLonger ==
    \A i \in 2..Len(stack) :
        Len(stack[i].arg[1].trace_address)
            = Len(stack[i - 1].root[1].trace_address) + 1

DepthBounded ==
    Len(stack) <= IF IsExc(RootRecord) THEN 1
                  ELSE Max(1, MaxAddressLength(traces)
                                  - Len(RootRecord.trace_address) + 1)

\* C9, amended: for every finite Record Set and every root, member or not, the
\* assembly terminates; each recursive call is made on a record whose address
\* is exactly one element longer than its caller's, and the recursion depth
\* never exceeds max(1, (maximum address length in the set)
\* - len(root.trace_address) + 1).
C9_Amended == [](StepsOneLonger /\ DepthBounded) /\ <>(~IsPending(result))

\* Three calls are running, one inside the other.
C9_Witness == Len(stack) = 3 /\ Top.pc = "calls"

\* The positions of the records whose address is that of record i without its
\* last index.
ParentPositions(ts, i) ==
    {p \in 1..Len(ts) :
        /\ Len(ts[i].trace_address) >= 1
        /\ ts[p].trace_address
               = SubSeq(ts[i].trace_address, 1, Len(ts[i].trace_address) - 1)}

\* The number of chains of Record Set entries from the first record to record
\* i, each entry the parent of the next.
RECURSIVE Chains(_, _)
RECURSIVE SumChains(_, _)
Chains(ts, i) == IF i = 1 THEN 1 ELSE SumChains(ts, ParentPositions(ts, i))
SumChains(ts, S) ==
    IF S = {} THEN 0
    ELSE Chains(ts, CHOOSE p \in S : TRUE) + SumChains(ts, S \ {CHOOSE p \in S : TRUE})

RECURSIVE NodeCount(_)
RECURSIVE NodeCounts(_)
NodeCount(node) == 1 + NodeCounts(node.calls)
NodeCounts(nodes) ==
    IF nodes = <<>> THEN 0 ELSE NodeCount(Head(nodes)) + NodeCounts(Tail(nodes))

RECURSIVE SumSeq(_)
SumSeq(q) == IF q = <<>> THEN 0 ELSE Head(q) + SumSeq(Tail(q))

RECURSIVE SumBuilt(_)
SumBuilt(S) ==
    IF S = {} THEN 0
    ELSE built[CHOOSE p \in S : TRUE] + SumBuilt(S \ {CHOOSE p \in S : TRUE})

\* Distinct addresses, the first one empty, every parent address present.
WellFormed(ts) ==
    /\ ts # <<>>
    /\ ts[1].trace_address = <<>>
    /\ \A i, j \in 1..Len(ts) : i # j => ts[i].trace_address # ts[j].trace_address
    /\ \A i \in 2..Len(ts) : ParentPositions(ts, i) # {}

\* C10: with the default root, a record is in the tree as many times as there
\* are chains from the first record to it: one node per record in a well-formed
\* set, none for a record without a parent in the set, and for records of one
\* address as many each, every copy with its own copy of the children.
C10_NodesPerRecord ==
    (root = None /\ IsNode(result)) =>
        /\ \A i \in 1..Len(traces) : built[i] = Chains(traces, i)
        /\ NodeCount(result) = SumSeq(built)
        /\ WellFormed(traces) => NodeCount(result) = Len(traces)
        /\ \A i \in 2..Len(traces) : ParentPositions(traces, i) = {} => built[i] = 0
        /\ \A i, j \in 2..Len(traces) :
               traces[i].trace_address = traces[j].trace_address => built[i] = built[j]
        /\ \A c \in 2..Len(traces) : built[c] = SumBuilt(ParentPositions(traces, c))

\* Two records with address [0], both kept, each with its own copy of [0, 0].
C10_Witness ==
    /\ root = None
    /\ IsNode(result)
    /\ Len(traces) = 4
    /\ traces[1].trace_address = <<>>
    /\ traces[2].trace_address = <<0>>
    /\ traces[3].trace_address = <<0>>
    /\ traces[4].trace_address = <<0, 0>>
    /\ built = <<1, 1, 1, 2>>
    /\ NodeCount(result) = 5

=============================================================================
